---- MODULE Spec2Model ----
(***************************************************************************)
(* The training / evaluation driver of train.py: main() with its resume    *)
(* branch and epoch loop, train() batch by batch (backward, clip,          *)
(* optimizer step, scheduler step, global_step), test() with its best_loss *)
(* update and per-epoch checkpoint.                                        *)
(*                                                                         *)
(* Losses and averages are exact rationals <<numerator, denominator>> with *)
(* a positive denominator.  The learning rate is kept as the numerator of  *)
(* the LambdaLR multiplier over the denominator warm_up.  The flow         *)
(* parameters are a version number: an optimizer step with a non-zero      *)
(* learning rate produces a new version.                                   *)
(***************************************************************************)
EXTENDS Integers, Sequences, FiniteSets, TLC

\* ---------------------------------------------------------------- bounds
MaxEpochs == 2
TrainSize == 3
TestSize == 2
MaxBatch == 2
MaxWarm == 2
MaxCkptEpoch == 1

\* per-batch loss values, gradient norms after backward, --max_grad_norm values
Losses == {-1, 2}
Grads == {1, 3}
Thresholds == {-1, 0, 2}
\* content of save/best.pth.tar when it exists
SavedNets == {10}
SavedLosses == {<<-1, 1>>, <<1, 1>>}

VARIABLES
    pc,            \* position in main(): main, setup, loop, train, test, done, halted
    step,          \* position inside one iteration of train()'s batch loop
    error,         \* the exception that halted the process, or "none"
    args,          \* the parsed command line
    save,          \* [isdir, best]: save/ exists; best.pth.tar's record, if any
    best_loss,     \* module global
    global_step,   \* module global
    start_epoch,
    epoch,
    net,           \* flow parameters (version)
    vae_net,       \* VAE parameters (version)
    training,      \* net.training, set by net.train() / net.eval()
    grad,          \* global norm of the gradients held by the parameters
    optimizer,     \* [steps, lr]: steps taken, lr multiplier numerator
    scheduler,     \* [last_epoch]
    warm_up,       \* args.warm_up * args.batch_size
    loss_meter,    \* [sum, count]
    batch,         \* batches of the current pass already consumed
    ckpts,         \* files under ckpts/: set of [name, data]
    images,        \* image files written
    log,           \* history: phases entered, <<"train", e>> / <<"test", e>>
    saved,         \* history: torch.save calls, <<name, state>>
    seen,          \* history: <<loss, size>> of the batches of the current pass
    events,        \* history: what the current training batch did, in order
    raw,           \* history: gradient norm right after backward
    applied,       \* history: gradient norm the last optimizer step consumed
    net_trained,   \* history: net when the last train() returned
    relaunched     \* the process was started a second time with --resume

vars == <<pc, step, error, args, save, best_loss, global_step, start_epoch, epoch,
          net, vae_net, training, grad, optimizer, scheduler, warm_up, loss_meter,
          batch, ckpts, images, log, saved, seen, events, raw, applied,
          net_trained, relaunched>>

\* ------------------------------------------------------------ arithmetic
Min(a, b) == IF a < b THEN a ELSE b

\* rationals <<n, d>>, d > 0
Less(a, b) == a[1] * b[2] < b[1] * a[2]
RatEq(a, b) == a[1] * b[2] = b[1] * a[2]

\* ------------------------------------------------------------ data loader
\* len(loader): DataLoader with drop_last = False
NumBatches(size, bs) == (size + bs - 1) \div bs

\* x.size(0) of batch i: the last batch holds the remainder
BatchLen(size, bs, i) == Min(bs, size - i * bs)

\* ------------------------------------------------------------ util
NewMeter == [sum |-> 0, count |-> 0]

MeterUpdate(m, val, n) == [sum |-> m.sum + val * n, count |-> m.count + n]

Avg(m) == IF m.count = 0 THEN <<0, 1>> ELSE <<m.sum, m.count>>

ClipGradNorm(g, max_norm) == IF g > max_norm THEN max_norm ELSE g

\* ------------------------------------------------------------ scheduler
\* lambda s: min(1., s / warm_up), as a numerator over warm_up
LrLambda(s) == IF s >= warm_up THEN warm_up ELSE s

\* ------------------------------------------------------------ files
FileName(e) == <<"ckpts/flow++_", e, "vae(n_d_n_l_64).pth.tar">>

ReconName(e) == <<"samples/reconstruction_epoch_", e, ".png">>

SampleName(e) == <<"samples", "epoch_", e, ".png">>

WriteFile(dir, name, data) ==
    {f \in dir : f.name # name} \cup {[name |-> name, data |-> data]}

\* ------------------------------------------------------------ initial state
Args == [resume : BOOLEAN, num_epochs : 0..MaxEpochs, max_grad_norm : Thresholds,
         warm_up : 0..MaxWarm, batch_size : 1..MaxBatch]

Checkpoints == [net : SavedNets, test_loss : SavedLosses, epoch : 0..MaxCkptEpoch]

NoSaveDir == [isdir |-> FALSE, best |-> <<>>]

SaveDirs ==
    {NoSaveDir} \cup [isdir : {TRUE}, best : {<<>>} \cup {<<c>> : c \in Checkpoints}]

Init ==
    /\ pc = "main"
    /\ step = "load"
    /\ error = "none"
    /\ args \in Args
    \* a run without --resume never looks at save/
    /\ save \in IF args.resume THEN SaveDirs ELSE {NoSaveDir}
    /\ best_loss = <<0, 1>>
    /\ global_step = 0
    /\ start_epoch = 0
    /\ epoch = 0
    /\ net = 0
    /\ vae_net = 0
    /\ training = TRUE
    /\ grad = 0
    /\ optimizer = [steps |-> 0, lr |-> 0]
    /\ scheduler = [last_epoch |-> 0]
    /\ warm_up = 0
    /\ loss_meter = NewMeter
    /\ batch = 0
    /\ ckpts = {}
    /\ images = {}
    /\ log = <<>>
    /\ saved = <<>>
    /\ seen = <<>>
    /\ events = <<>>
    /\ raw = 0
    /\ applied = 0
    /\ net_trained = 0
    /\ relaunched = FALSE

\* ------------------------------------------------------------ main()
\* args.resume false: start_epoch = 0, the globals keep their initial values
MainFresh ==
    /\ pc = "main"
    /\ ~args.resume
    /\ start_epoch' = 0
    /\ epoch' = 0
    /\ pc' = "setup"
    /\ UNCHANGED <<step, error, args, save, best_loss, global_step, net, vae_net,
                   training, grad, optimizer, scheduler, warm_up, loss_meter, batch,
                   ckpts, images, log, saved, seen, events, raw, applied,
                   net_trained, relaunched>>

\* mutation: the missing directory is not noticed and the run goes on
MainResumeNoDir_Ignored ==
    /\ pc = "main"
    /\ args.resume
    /\ ~save.isdir
    /\ pc' = "setup"
    /\ UNCHANGED <<step, error, args, save, best_loss, global_step, start_epoch, epoch,
                   net, vae_net, training, grad, optimizer, scheduler, warm_up,
                   loss_meter, batch, ckpts, images, log, saved, seen, events, raw,
                   applied, net_trained, relaunched>>

\* assert os.path.isdir('save') fails
MainResumeNoDir ==
    /\ pc = "main"
    /\ args.resume
    /\ ~save.isdir
    /\ pc' = "halted"
    /\ error' = "AssertionError"
    /\ UNCHANGED <<step, args, save, best_loss, global_step, start_epoch, epoch, net,
                   vae_net, training, grad, optimizer, scheduler, warm_up, loss_meter,
                   batch, ckpts, images, log, saved, seen, events, raw, applied,
                   net_trained, relaunched>>

\* torch.load('save/best.pth.tar') finds no file
MainResumeNoFile ==
    /\ pc = "main"
    /\ args.resume
    /\ save.isdir
    /\ save.best = <<>>
    /\ pc' = "halted"
    /\ error' = "FileNotFoundError"
    /\ UNCHANGED <<step, args, save, best_loss, global_step, start_epoch, epoch, net,
                   vae_net, training, grad, optimizer, scheduler, warm_up, loss_meter,
                   batch, ckpts, images, log, saved, seen, events, raw, applied,
                   net_trained, relaunched>>

\* mutation: global_step restored as the epoch count, not epochs * len(trainset)
MainResume_StepInEpochs ==
    /\ pc = "main"
    /\ args.resume
    /\ save.isdir
    /\ save.best # <<>>
    /\ LET checkpoint == save.best[1] IN
        /\ net' = checkpoint.net
        /\ best_loss' = checkpoint.test_loss
        /\ start_epoch' = checkpoint.epoch
        /\ epoch' = checkpoint.epoch
        /\ global_step' = checkpoint.epoch
    /\ pc' = "setup"
    /\ UNCHANGED <<step, error, args, save, vae_net, training, grad, optimizer,
                   scheduler, warm_up, loss_meter, batch, ckpts, images, log, saved,
                   seen, events, raw, applied, net_trained, relaunched>>

MainResume ==
    /\ pc = "main"
    /\ args.resume
    /\ save.isdir
    /\ save.best # <<>>
    /\ LET checkpoint == save.best[1] IN
        /\ net' = checkpoint.net
        /\ best_loss' = checkpoint.test_loss
        /\ start_epoch' = checkpoint.epoch
        /\ epoch' = checkpoint.epoch
        /\ global_step' = checkpoint.epoch * TrainSize
    /\ pc' = "setup"
    /\ UNCHANGED <<step, error, args, save, vae_net, training, grad, optimizer,
                   scheduler, warm_up, loss_meter, batch, ckpts, images, log, saved,
                   seen, events, raw, applied, net_trained, relaunched>>

\* optimizer, warm_up and the LambdaLR scheduler, whose constructor takes the
\* first step: last_epoch = 0, lr = base_lr * lambda(0)
Setup ==
    /\ pc = "setup"
    /\ args.warm_up * args.batch_size # 0
    /\ warm_up' = args.warm_up * args.batch_size
    /\ optimizer' = [steps |-> 0, lr |-> 0]
    /\ scheduler' = [last_epoch |-> 0]
    /\ pc' = "loop"
    /\ UNCHANGED <<step, error, args, save, best_loss, global_step, start_epoch, epoch,
                   net, vae_net, training, grad, loss_meter, batch, ckpts, images, log,
                   saved, seen, events, raw, applied, net_trained, relaunched>>

\* warm_up = 0: the constructor's lambda(0) divides 0 by 0
SetupZeroWarmup ==
    /\ pc = "setup"
    /\ args.warm_up * args.batch_size = 0
    /\ warm_up' = 0
    /\ pc' = "halted"
    /\ error' = "ZeroDivisionError"
    /\ UNCHANGED <<step, args, save, best_loss, global_step, start_epoch, epoch, net,
                   vae_net, training, grad, optimizer, scheduler, loss_meter, batch,
                   ckpts, images, log, saved, seen, events, raw, applied, net_trained,
                   relaunched>>

\* mutation: range(start_epoch, args.num_epochs)
EpochStop_Absolute == args.num_epochs

\* range(start_epoch, start_epoch + args.num_epochs): one past the last epoch
EpochStop == start_epoch + args.num_epochs

\* the range is exhausted: main() returns
MainReturn ==
    /\ pc = "loop"
    /\ ~(epoch < EpochStop)
    /\ pc' = "done"
    /\ UNCHANGED <<step, error, args, save, best_loss, global_step, start_epoch, epoch,
                   net, vae_net, training, grad, optimizer, scheduler, warm_up,
                   loss_meter, batch, ckpts, images, log, saved, seen, events, raw,
                   applied, net_trained, relaunched>>

\* ------------------------------------------------------------ train()
\* mutation: loss_meter.update(loss.item()), every batch weighted 1
MeterAfterBatch_Unweighted(m, val, n) == MeterUpdate(m, val, 1)

\* loss_meter.update(loss.item(), x.size(0))
MeterAfterBatch(m, val, n) == MeterUpdate(m, val, n)

\* mutation: if max_grad_norm >= 0
ClipEnabled_OrZero == args.max_grad_norm >= 0

\* if max_grad_norm > 0
ClipEnabled == args.max_grad_norm > 0

\* main() calls train(epoch, ...): net.train(), a new AverageMeter
TrainBegin ==
    /\ pc = "loop"
    /\ epoch < EpochStop
    /\ pc' = "train"
    /\ step' = "load"
    /\ training' = TRUE
    /\ loss_meter' = NewMeter
    /\ batch' = 0
    /\ log' = Append(log, <<"train", epoch>>)
    /\ seen' = <<>>
    /\ UNCHANGED <<error, args, save, best_loss, global_step, start_epoch, epoch, net,
                   vae_net, grad, optimizer, scheduler, warm_up, ckpts, images, saved,
                   events, raw, applied, net_trained, relaunched>>

\* the next batch: zero_grad, both forward passes, the loss, the meter, backward
TrainForward ==
    /\ pc = "train"
    /\ step = "load"
    /\ batch < NumBatches(TrainSize, args.batch_size)
    /\ \E loss \in Losses, g \in Grads :
        LET n == BatchLen(TrainSize, args.batch_size, batch) IN
        /\ loss_meter' = MeterAfterBatch(loss_meter, loss, n)
        /\ seen' = Append(seen, <<loss, n>>)
        /\ grad' = g
        /\ raw' = g
    /\ events' = <<"backward">>
    /\ step' = "clip"
    /\ UNCHANGED <<pc, error, args, save, best_loss, global_step, start_epoch, epoch,
                   net, vae_net, training, optimizer, scheduler, warm_up, batch, ckpts,
                   images, log, saved, applied, net_trained, relaunched>>

\* if max_grad_norm > 0: util.clip_grad_norm(optimizer, max_grad_norm)
TrainClip ==
    /\ pc = "train"
    /\ step = "clip"
    /\ IF ClipEnabled
       THEN /\ grad' = ClipGradNorm(grad, args.max_grad_norm)
            /\ events' = Append(events, "clip")
       ELSE UNCHANGED <<grad, events>>
    /\ step' = "step"
    /\ UNCHANGED <<pc, error, args, save, best_loss, global_step, start_epoch, epoch,
                   net, vae_net, training, optimizer, scheduler, warm_up, loss_meter,
                   batch, ckpts, images, log, saved, seen, raw, applied, net_trained,
                   relaunched>>

\* optimizer.step(): with a zero learning rate the parameters stay as they are
TrainOptStep ==
    /\ pc = "train"
    /\ step = "step"
    /\ optimizer' = [optimizer EXCEPT !.steps = @ + 1]
    /\ net' = IF optimizer.lr = 0 THEN net ELSE net + 1
    /\ applied' = grad
    /\ events' = Append(events, "step")
    /\ step' = "sched"
    /\ UNCHANGED <<pc, error, args, save, best_loss, global_step, start_epoch, epoch,
                   vae_net, training, grad, scheduler, warm_up, loss_meter, batch,
                   ckpts, images, log, saved, seen, raw, net_trained, relaunched>>

\* scheduler.step(global_step): last_epoch = global_step, lr = base_lr * lambda(it)
TrainSchedStep ==
    /\ pc = "train"
    /\ step = "sched"
    /\ scheduler' = [last_epoch |-> global_step]
    /\ optimizer' = [optimizer EXCEPT !.lr = LrLambda(global_step)]
    /\ events' = Append(events, "sched")
    /\ step' = "count"
    /\ UNCHANGED <<pc, error, args, save, best_loss, global_step, start_epoch, epoch,
                   net, vae_net, training, grad, warm_up, loss_meter, batch, ckpts,
                   images, log, saved, seen, raw, applied, net_trained, relaunched>>

\* the progress bar, then global_step += x.size(0)
TrainCount ==
    /\ pc = "train"
    /\ step = "count"
    /\ global_step' = global_step + BatchLen(TrainSize, args.batch_size, batch)
    /\ batch' = batch + 1
    /\ events' = Append(events, "count")
    /\ step' = "load"
    /\ UNCHANGED <<pc, error, args, save, best_loss, start_epoch, epoch, net, vae_net,
                   training, grad, optimizer, scheduler, warm_up, loss_meter, ckpts,
                   images, log, saved, seen, raw, applied, net_trained, relaunched>>

\* ------------------------------------------------------------ test()
\* the loader is exhausted, train() returns and main() calls test(epoch, ...):
\* net.eval(), a new AverageMeter
TestBegin ==
    /\ pc = "train"
    /\ step = "load"
    /\ batch = NumBatches(TrainSize, args.batch_size)
    /\ pc' = "test"
    /\ training' = FALSE
    /\ loss_meter' = NewMeter
    /\ batch' = 0
    /\ log' = Append(log, <<"test", epoch>>)
    /\ seen' = <<>>
    /\ net_trained' = net
    /\ UNCHANGED <<step, error, args, save, best_loss, global_step, start_epoch, epoch,
                   net, vae_net, grad, optimizer, scheduler, warm_up, ckpts, images,
                   saved, events, raw, applied, relaunched>>

\* mutation: the evaluation loop counts its samples into global_step
TestBatch_Counting ==
    /\ pc = "test"
    /\ batch < NumBatches(TestSize, args.batch_size)
    /\ \E loss \in Losses :
        LET n == BatchLen(TestSize, args.batch_size, batch) IN
        /\ loss_meter' = MeterAfterBatch(loss_meter, loss, n)
        /\ seen' = Append(seen, <<loss, n>>)
        /\ global_step' = global_step + n
    /\ batch' = batch + 1
    /\ UNCHANGED <<pc, step, error, args, save, best_loss, start_epoch, epoch, net,
                   vae_net, training, grad, optimizer, scheduler, warm_up, ckpts,
                   images, log, saved, events, raw, applied, net_trained, relaunched>>

\* one evaluation batch: forward passes, the loss, the meter
TestBatch ==
    /\ pc = "test"
    /\ batch < NumBatches(TestSize, args.batch_size)
    /\ \E loss \in Losses :
        LET n == BatchLen(TestSize, args.batch_size, batch) IN
        /\ loss_meter' = MeterAfterBatch(loss_meter, loss, n)
        /\ seen' = Append(seen, <<loss, n>>)
    /\ batch' = batch + 1
    /\ UNCHANGED <<pc, step, error, args, save, best_loss, global_step, start_epoch,
                   epoch, net, vae_net, training, grad, optimizer, scheduler, warm_up,
                   ckpts, images, log, saved, events, raw, applied, net_trained,
                   relaunched>>

\* mutation: if loss_meter.avg > best_loss
Improved_Reversed(avg, best) == Less(best, avg)

\* if loss_meter.avg < best_loss
Improved(avg, best) == Less(avg, best)

\* mutation: 'test_loss': best_loss
CheckpointState_Best(avg, best) == [net |-> net, test_loss |-> best, epoch |-> epoch]

\* state = {'net': ..., 'test_loss': loss_meter.avg, 'epoch': epoch}
CheckpointState(avg, best) == [net |-> net, test_loss |-> avg, epoch |-> epoch]

\* after the last batch: best_loss, the checkpoint, the two image grids; test()
\* returns and the epoch loop advances
TestFinish ==
    /\ pc = "test"
    /\ batch = NumBatches(TestSize, args.batch_size)
    /\ LET avg == Avg(loss_meter)
           best == IF Improved(avg, best_loss) THEN avg ELSE best_loss
           state == CheckpointState(avg, best)
       IN
        /\ best_loss' = best
        /\ ckpts' = WriteFile(ckpts, FileName(epoch), state)
        /\ saved' = Append(saved, <<FileName(epoch), state>>)
    /\ images' = images \cup {ReconName(epoch), SampleName(epoch)}
    /\ epoch' = epoch + 1
    /\ pc' = "loop"
    /\ UNCHANGED <<step, error, args, save, global_step, start_epoch, net, vae_net,
                   training, grad, optimizer, scheduler, warm_up, loss_meter, batch,
                   log, seen, events, raw, applied, net_trained, relaunched>>

\* ------------------------------------------------------------ one run
Next ==
    \/ MainFresh
    \/ MainResumeNoDir
    \/ MainResumeNoFile
    \/ MainResume
    \/ Setup
    \/ SetupZeroWarmup
    \/ MainReturn
    \/ TrainBegin
    \/ TrainForward
    \/ TrainClip
    \/ TrainOptStep
    \/ TrainSchedStep
    \/ TrainCount
    \/ TestBegin
    \/ TestBatch
    \/ TestFinish

Spec == Init /\ [][Next]_vars

\* ------------------------------------------------------------ a run and its resumption
\* A finished run is resumed: the script is started again with --resume True (the
\* globals are initialised anew, the model is built anew, main() runs) after one
\* of the checkpoints it wrote was put at save/best.pth.tar, or with save/ left
\* missing or empty.
Relaunch ==
    /\ pc = "done"
    /\ ~relaunched
    /\ save' \in {NoSaveDir, [isdir |-> TRUE, best |-> <<>>]}
                 \cup {[isdir |-> TRUE, best |-> <<c.data>>] : c \in ckpts}
    /\ relaunched' = TRUE
    /\ args' = [args EXCEPT !.resume = TRUE]
    /\ pc' = "main"
    /\ step' = "load"
    /\ best_loss' = <<0, 1>>
    /\ global_step' = 0
    /\ start_epoch' = 0
    /\ epoch' = 0
    /\ net' = 0
    /\ training' = TRUE
    /\ grad' = 0
    /\ optimizer' = [steps |-> 0, lr |-> 0]
    /\ scheduler' = [last_epoch |-> 0]
    /\ warm_up' = 0
    /\ loss_meter' = NewMeter
    /\ batch' = 0
    /\ seen' = <<>>
    /\ events' = <<>>
    /\ raw' = 0
    /\ applied' = 0
    /\ net_trained' = 0
    /\ UNCHANGED <<error, vae_net, ckpts, images, log, saved>>

InitFresh == Init /\ ~args.resume

NextResume == Next \/ Relaunch

SpecResume == InitFresh /\ [][NextResume]_vars

\* ------------------------------------------------------------ derived
Running == pc \in {"loop", "train", "test", "done"}

\* training batches of this run whose iteration is complete
BatchesDone ==
    (epoch - start_epoch) * NumBatches(TrainSize, args.batch_size)
        + (IF pc = "train" THEN batch
           ELSE IF pc = "test" THEN NumBatches(TrainSize, args.batch_size) ELSE 0)

RECURSIVE WeightedSum(_)
WeightedSum(s) ==
    IF s = <<>> THEN 0 ELSE s[1][1] * s[1][2] + WeightedSum(Tail(s))

RECURSIVE TotalSize(_)
TotalSize(s) == IF s = <<>> THEN 0 ELSE s[1][2] + TotalSize(Tail(s))

MinRat(S) == CHOOSE x \in S : \A y \in S : ~Less(y, x)

\* best_loss before the first evaluation pass of this run
InitialBest == IF args.resume THEN save.best[1].test_loss ELSE <<0, 1>>

AtTrainStart == pc = "train" /\ step = "load" /\ batch = 0

\* ------------------------------------------------------------ claims
ExpectedPhase(s, i) ==
    IF i % 2 = 1 THEN <<"train", s + (i - 1) \div 2>> ELSE <<"test", s + (i - 2) \div 2>>

\* C1: the phases a run of main() enters are train(s), test(s), train(s+1),
\* test(s+1), ... in this order and nothing else; while in train(e) or test(e)
\* the last phase entered is that one; the run ends after the n-th test, with
\* exactly 2 * num_epochs phases entered.
C1_PhasesAlternate ==
    /\ Len(log) <= 2 * args.num_epochs
    /\ \A i \in 1..Len(log) : log[i] = ExpectedPhase(start_epoch, i)
    /\ pc = "train" => log # <<>> /\ log[Len(log)] = <<"train", epoch>>
    /\ pc = "test" => log # <<>> /\ log[Len(log)] = <<"test", epoch>>
    /\ pc = "loop" => Len(log) = 2 * (epoch - start_epoch)
    /\ pc = "done" => Len(log) = 2 * args.num_epochs

\* a resumed run of two epochs has ended
C1_Witness ==
    /\ pc = "done"
    /\ args.num_epochs = 2
    /\ start_epoch = 1
    /\ log = <<(<<"train", 1>>), (<<"test", 1>>), (<<"train", 2>>), (<<"test", 2>>)>>

\* C2: when train() begins for epoch e, global_step = e * (training-set size),
\* in a fresh and in a resumed run; resuming from a checkpoint of epoch E sets
\* global_step to E * (training-set size) before the first training batch.
C2_GlobalStepAtTrainStart ==
    /\ AtTrainStart => global_step = epoch * TrainSize
    /\ (args.resume /\ pc \in {"setup", "loop"} /\ log = <<>>)
           => global_step = save.best[1].epoch * TrainSize

\* the second epoch of a resumed run begins, after an epoch whose last batch
\* was a partial one
C2_Witness ==
    /\ AtTrainStart
    /\ args.resume
    /\ epoch = start_epoch + 1
    /\ start_epoch = 1
    /\ args.batch_size = 2
    /\ global_step = 2 * TrainSize

\* C3: in a fresh run the multiplier an optimizer step uses is
\* min(1, k / warm_up) where k is the number of training batches processed
\* before it: 0 at first, linear in k, 1 from k = warm_up on.
C3_WarmupByBatches ==
    (~args.resume /\ pc = "train" /\ step = "step")
        => optimizer.lr * args.warm_up = Min(BatchesDone, args.warm_up) * warm_up

\* C4: test() writes one checkpoint per epoch, improved or not: the k-th
\* torch.save of a run goes to the file named after epoch s + k - 1 and holds
\* that epoch index, the parameters as train() left them and that pass's own
\* weighted average loss; the names are pairwise distinct, every file is on
\* disk as written, and a finished run of n epochs has written exactly n.
C4_CheckpointEveryEpoch ==
    /\ Running => Len(saved) = epoch - start_epoch
    /\ \A i \in 1..Len(saved) :
        /\ saved[i][1] = FileName(start_epoch + i - 1)
        /\ saved[i][2].epoch = start_epoch + i - 1
        /\ [name |-> saved[i][1], data |-> saved[i][2]] \in ckpts
    /\ \A i, j \in 1..Len(saved) : i # j => saved[i][1] # saved[j][1]
    /\ (pc \in {"loop", "done"} /\ saved # <<>>) =>
        LET state == saved[Len(saved)][2] IN
        /\ state.net = net_trained
        /\ state.test_loss[2] = TotalSize(seen)
        /\ state.test_loss[1] = WeightedSum(seen)
    /\ pc = "done" => Len(saved) = args.num_epochs /\ Cardinality(ckpts) = args.num_epochs

\* a run has ended whose second epoch did not improve on best_loss and was
\* checkpointed all the same, after training changed the parameters
C4_Witness ==
    /\ pc = "done"
    /\ Len(saved) = 2
    /\ Less(best_loss, saved[2][2].test_loss)
    /\ saved[2][2].net # saved[1][2].net
    /\ Cardinality(ckpts) = 2

\* C5: best_loss is the minimum of its initial value (0, or the checkpoint's
\* test_loss in a resumed run) and the average losses of the evaluation passes
\* completed so far.
C5_BestLossIsMinimum ==
    (pc \in {"setup", "loop", "train", "test", "done"}) =>
        RatEq(best_loss,
              MinRat({InitialBest} \cup {saved[i][2].test_loss : i \in 1..Len(saved)}))

\* a resumed run: the first pass improved on the checkpoint's loss, the second
\* pass was worse and left best_loss alone
C5_Witness ==
    /\ pc = "done"
    /\ args.resume
    /\ Len(saved) = 2
    /\ Less(saved[1][2].test_loss, InitialBest)
    /\ Less(saved[1][2].test_loss, saved[2][2].test_loss)
    /\ best_loss = saved[1][2].test_loss

\* C6: during a pass the meter holds exactly the batches of this pass: its
\* count is the number of samples seen so far in the pass, its average the
\* size-weighted mean of their losses, and it is empty when the pass starts.
C6_MeterIsWeightedMean ==
    (pc \in {"train", "test"}) =>
        /\ Len(seen) = batch + (IF pc = "train" /\ step # "load" THEN 1 ELSE 0)
        /\ \A i \in 1..Len(seen) :
            seen[i][2] = BatchLen(IF pc = "train" THEN TrainSize ELSE TestSize,
                                  args.batch_size, i - 1)
        /\ loss_meter.count = TotalSize(seen)
        /\ seen = <<>> => Avg(loss_meter) = <<0, 1>>
        /\ seen # <<>> => RatEq(Avg(loss_meter), <<WeightedSum(seen), TotalSize(seen)>>)

\* in a later epoch, two training batches of different sizes and different
\* losses have been metered
C6_Witness ==
    /\ pc = "train"
    /\ epoch > start_epoch
    /\ Len(seen) = 2
    /\ seen[1][2] # seen[2][2]
    /\ seen[1][1] # seen[2][1]
    /\ Avg(loss_meter) = <<WeightedSum(seen), 3>>

ExpectedEvents ==
    IF args.max_grad_norm > 0
    THEN <<"backward", "clip", "step", "sched", "count">>
    ELSE <<"backward", "step", "sched", "count">>

\* C7: every training batch takes exactly one optimizer step, after backward
\* (and after the clipping, which happens exactly when max_grad_norm > 0) and
\* before the scheduler step, which comes before the global_step increment;
\* with max_grad_norm = T > 0 the step consumes gradients of norm at most T,
\* with max_grad_norm <= 0 the gradients backward produced.
C7_OneStepPerBatch ==
    /\ Running =>
        optimizer.steps =
            BatchesDone + (IF pc = "train" /\ step \in {"sched", "count"} THEN 1 ELSE 0)
    /\ Len(events) <= Len(ExpectedEvents)
    /\ \A i \in 1..Len(events) : events[i] = ExpectedEvents[i]
    /\ (pc = "train" /\ step = "load" /\ batch > 0) => events = ExpectedEvents
    /\ (pc = "train" /\ step \in {"sched", "count"}) =>
        /\ events[Len(events)] \in {"step", "sched"}
        /\ args.max_grad_norm > 0 => applied <= args.max_grad_norm
        /\ args.max_grad_norm > 0 => applied = Min(raw, args.max_grad_norm)
        /\ args.max_grad_norm <= 0 => applied = raw
    /\ (pc = "train" /\ step = "count") => scheduler.last_epoch = global_step

\* an optimizer step has just consumed gradients that were clipped to T
C7_Witness ==
    /\ pc = "train"
    /\ step = "sched"
    /\ args.max_grad_norm > 0
    /\ raw > args.max_grad_norm
    /\ applied = args.max_grad_norm
    /\ events = <<"backward", "clip", "step">>

\* C8: with --resume and no save/ directory, main() halts on the assertion and
\* nothing has happened: the globals are 0, the parameters are the freshly
\* built ones, no phase was entered, no checkpoint or image was written.
C8_ResumeWithoutDirHalts ==
    (args.resume /\ ~save.isdir /\ pc # "main") =>
        /\ pc = "halted"
        /\ error = "AssertionError"
        /\ best_loss = <<0, 1>>
        /\ global_step = 0
        /\ net = 0
        /\ log = <<>>
        /\ saved = <<>>
        /\ ckpts = {}
        /\ images = {}

\* the assertion has failed
C8_Witness ==
    /\ pc = "halted"
    /\ error = "AssertionError"
    /\ args.resume
    /\ ~save.isdir

\* C9: a run resumed from the checkpoint written after epoch E trains only
\* epochs later than E, so that over the run and its resumption no epoch is
\* trained twice and no checkpoint file is written a second time.
C9_ResumeAtLaterEpoch ==
    /\ (relaunched /\ pc = "train") => epoch > save.best[1].epoch
    /\ \A i, j \in 1..Len(log) : i # j => log[i] # log[j]
    /\ \A i, j \in 1..Len(saved) : i # j => saved[i][1] # saved[j][1]

\* C10: no step of test(), its entry included, changes the flow parameters, the
\* VAE parameters, the optimizer, the scheduler or global_step, and every
\* train() after the first starts from the parameters the previous train()
\* ended with.
C10_TestLeavesModelAlone ==
    /\ [][(pc = "test" \/ pc' = "test") =>
            UNCHANGED <<net, vae_net, optimizer, scheduler, global_step>>]_vars
    /\ []((AtTrainStart /\ epoch > start_epoch) => net = net_trained)

\* the second train() of a run starts, after a first one that changed the
\* parameters and an evaluation pass that was checkpointed
C10_Witness ==
    /\ AtTrainStart
    /\ epoch > start_epoch
    /\ net > 0
    /\ net = net_trained
    /\ Len(saved) = 1
    /\ saved[1][2].net = net

====
